---- MODULE Spec2Model ----
(***************************************************************************)
(* The sync engine of eleditor-api (src/src/index.ts, the routes/sync part *)
(* from line 180 on) over its PostgreSQL store.                            *)
(*                                                                         *)
(* Every handler is an async function that suspends at each `await         *)
(* db.query(...)`; `db` is the process-wide pg Pool, so each statement is  *)
(* sent on whatever pooled connection is free at that moment.  The model   *)
(* has one action per statement of a handler, a store with per-connection  *)
(* transaction blocks (READ COMMITTED: a statement sees the committed rows *)
(* plus the uncommitted writes of its own connection), and the request     *)
(* records holding each handler's locals and its response.                 *)
(*                                                                         *)
(* Not modelled: the created_at/id columns of user_data, last_updated of   *)
(* storage_stats, the JS-side `new Date()` in the responses, logging.      *)
(***************************************************************************)
EXTENDS Integers, Sequences, FiniteSets, TLC

VARIABLES
    user_data,      \* committed rows of user_data, per (user_id, thread_id)
    data_backups,   \* committed rows of data_backups, in insertion order
    storage_stats,  \* committed rows of storage_stats, per user_id
    conn,           \* per pooled connection: its open transaction block
    lastConn,       \* the connection released last (top of the pool's idle list)
    clock,          \* the store's clock, read by NOW(); it ticks as a request arrives
    backup_seq,     \* ids handed out to data_backups rows so far
    faults,         \* statements the store has failed so far
    req,            \* per request slot: the handler's position, locals, response
    users,          \* committed rows of users, in insertion order
    user_sessions,  \* committed rows of user_sessions, in insertion order
    issued          \* the tokens sent to clients in a register or login response

vars == <<user_data, data_backups, storage_stats, conn, lastConn, clock,
          backup_seq, faults, req, users, user_sessions, issued>>

tables == <<user_data, data_backups, storage_stats>>

authVars == <<users, user_sessions, issued>>

----------------------------------------------------------------------------
(* Bounds of the model *)

MaxVersion == 2
MaxReqs == 2
MaxReqsSeq == 3
MaxReqsMulti == 3
SeedClock == 2
MaxFaults == 1
NConn == 2
MaxReqsAuth == 3
SeedAuthClock == 1

(* Program constants *)

DefaultVersion == 1
DefaultLimit == 10
\* `expiresIn: '30d'` of the JWT and `setDate(getDate() + 30)` of the session;
\* the clock counts days
TokenDays == 30
SessionDays == 30
MinPassword == 8

Users == {1, 2}
\* thread ids are strings; one of them is spelled like the path segment of /stats
Threads == {"t1", "stats"}
Conns == 1..NConn
Keys == Users \X Threads

EmptyThread == ""
ValidDataTypes == {"spreadsheet", "document", "both"}
\* request inputs: two valid values, an invalid one, and the missing field
DataTypeInputs == {"document", "both", "pdf", ""}
\* content as its jsonb text; "" is a missing content
Contents == {"[1]", "[1, 2]"}
\* the JSON values that are falsy in JavaScript, and the missing field
FalsyContents == {"", "null", "false", "0", "\"\""}
ContentInputs == Contents \cup {"", "0"}
\* an optional body field: <<>> when the field is missing, <<x>> when present
Optional(S) == {<<>>} \cup {<<x>> : x \in S}

Reqs == {1, 2}

\* the address each user id registered with, and the passwords tried
Emails == <<"a@x.io", "b@x.io">>
Passwords == {"password1", "password2"}
\* email inputs: the registered spellings, one in upper case, and one Joi rejects
EmailInputs == {"a@x.io", "b@x.io", "A@x.io", "bad"}
\* password inputs: two of 9 characters, one of 5, and the missing field
PasswordInputs == Passwords \cup {"short", ""}

\* a token as the parts jwt.verify looks at: the payload, the issue and expiry
\* times, and whether the signature is the one made with JWT_SECRET
NoToken == [userId |-> 0, email |-> "", iat |-> 0, exp |-> 0, sig |-> "none"]
Garbage == [userId |-> 0, email |-> "", iat |-> 0, exp |-> 0, sig |-> "bad"]

----------------------------------------------------------------------------
(* The store *)

NoTx == [open |-> FALSE, aborted |-> FALSE, start |-> 0,
         wdata |-> [k \in Keys |-> <<>>],
         wbackups |-> <<>>,
         wstats |-> [u \in Users |-> <<>>]]

\* rows of user_data for key k as a statement on connection c sees them
ViewData(c, k) ==
    IF conn[c].open /\ conn[c].wdata[k] # <<>>
    THEN conn[c].wdata[k][1]
    ELSE user_data[k]

ViewBackups(c) ==
    IF conn[c].open THEN data_backups \o conn[c].wbackups ELSE data_backups

ViewStats(c, u) ==
    IF conn[c].open /\ conn[c].wstats[u] # <<>>
    THEN conn[c].wstats[u][1]
    ELSE storage_stats[u]

\* another connection's open transaction holds the row lock of key k
Locked(c, k) ==
    \E c2 \in Conns \ {c} : conn[c2].open /\ conn[c2].wdata[k] # <<>>

StatsLocked(c, u) ==
    \E c2 \in Conns \ {c} : conn[c2].open /\ conn[c2].wstats[u] # <<>>

\* NOW(): the transaction's start time inside a transaction block, else the
\* statement's own time
Now(c) == IF conn[c].open THEN conn[c].start ELSE clock

Range(s) == {s[i] : i \in 1..Len(s)}

Sum(f, S) ==
    LET RECURSIVE Go(_)
        Go(T) == IF T = {} THEN 0
                 ELSE LET x == CHOOSE y \in T : TRUE IN f[x] + Go(T \ {x})
    IN  Go(S)

\* an error of the statement leaves an open transaction block aborted
Abort(c) == IF conn[c].open THEN [conn EXCEPT ![c].aborted = TRUE] ELSE conn

\* an aborted transaction block rejects every statement but COMMIT and ROLLBACK
Rejects(c) == conn[c].open /\ conn[c].aborted

\* BEGIN: opens a transaction block (a warning, and no effect, inside one)
Begin(c) ==
    IF conn[c].open THEN conn
    ELSE [conn EXCEPT ![c] = [NoTx EXCEPT !.open = TRUE, !.start = clock]]

\* COMMIT: publishes the block's writes; an aborted block is rolled back instead,
\* outside a block it is a warning
Committed(c, old, written) ==
    IF conn[c].open /\ ~conn[c].aborted THEN written ELSE old

CommitData(c) ==
    Committed(c, user_data,
              [k \in Keys |-> IF conn[c].wdata[k] # <<>> THEN conn[c].wdata[k][1]
                              ELSE user_data[k]])

CommitBackupsReplacing(c) == Committed(c, data_backups, conn[c].wbackups)

\* the INSERTs of the block become committed rows, after the rows there are
CommitBackups(c) == Committed(c, data_backups, data_backups \o conn[c].wbackups)

CommitStats(c) ==
    Committed(c, storage_stats,
              [u \in Users |-> IF conn[c].wstats[u] # <<>> THEN conn[c].wstats[u][1]
                               ELSE storage_stats[u]])

\* COMMIT and ROLLBACK both end the block
EndTx(c) == [conn EXCEPT ![c] = NoTx]

----------------------------------------------------------------------------
(* The pool: db.query(text) runs the statement on an idle connection *)

InFlight(r) == req[r].pc \notin {"idle", "done"}

\* connections without an open transaction block are interchangeable: the
\* lowest-numbered one stands for them all
Clean(c) == conn[c] = NoTx
Lowest(c) == \A c2 \in Conns : c2 < c => ~Clean(c2)

\* pool.query takes the connection released last; with another request in flight
\* that one may be busy (or have been released in the other order), and the
\* statement goes to another connection of the pool
CanUse(r, c) ==
    /\ c = lastConn \/ \E r2 \in Reqs \ {r} : InFlight(r2)
    /\ Clean(c) => Lowest(c)

\* the connection on top of the idle list once the statement on c has run
Released(c, cleanAfter) ==
    IF cleanAfter
    THEN CHOOSE c2 \in Conns :
            /\ c2 = c \/ Clean(c2)
            /\ \A c3 \in Conns : c3 < c2 => ~(c3 = c \/ Clean(c3))
    ELSE c

\* one statement on connection c; err: the statement fails.  kind: "begin" for
\* BEGIN, "end" for COMMIT and ROLLBACK (which an aborted block accepts), "stmt"
\* for the others
Run(c, err, kind) ==
    /\ lastConn' = Released(c, kind = "end" \/ (~conn[c].open /\ (kind = "stmt" \/ err)))
    /\ UNCHANGED clock
    /\ IF kind # "end" /\ Rejects(c) THEN err /\ UNCHANGED faults
       ELSE IF err THEN faults < MaxFaults /\ faults' = faults + 1
       ELSE UNCHANGED faults

\* a statement of the sync router: it touches no table of the auth router
Exec(c, err, kind) == Run(c, err, kind) /\ UNCHANGED authVars

----------------------------------------------------------------------------
(* Requests *)

NoBody == [success |-> FALSE, error |-> ""]
Error(msg) == [success |-> FALSE, error |-> msg]

IdleReq == [op |-> "none", pc |-> "idle", user |-> 0, thread |-> "",
            dataType |-> "", content |-> "", version |-> 0, force |-> FALSE,
            backupId |-> 0, limit |-> <<>>,
            token |-> NoToken, email |-> "", password |-> "",
            rows |-> <<>>, backupRows |-> <<>>,
            totalSize |-> 0, threadCount |-> 0, rowCount |-> 0,
            status |-> 0, body |-> NoBody]

Key(r) == <<req[r].user, req[r].thread>>

\* the handler returns: its locals are gone, the response is on its way
Respond(r, status, body) ==
    req' = [req EXCEPT ![r].pc = "done", ![r].status = status, ![r].body = body,
                       ![r].rows = <<>>, ![r].backupRows = <<>>,
                       ![r].totalSize = 0, ![r].threadCount = 0, ![r].rowCount = 0]

\* a request arrives; it takes the first free slot
Admit(r, sc) ==
    /\ r \in sc.reqs
    /\ ~InFlight(r)
    /\ \A r2 \in sc.reqs : r2 < r => InFlight(r2)
    /\ clock < sc.maxClock
    /\ clock' = clock + 1
    /\ UNCHANGED authVars

\* a handler of the sync router starts: when the scope runs requireAuth in front
\* of it, where the middleware called next(), as the user it put in req.user
Enter(r, sc) ==
    IF sc.auth
    THEN r \in sc.reqs /\ req[r].pc = "auth_next" /\ UNCHANGED <<clock, authVars>>
    ELSE Admit(r, sc)

Principals(r, sc) == IF sc.auth THEN {req[r].user} ELSE sc.users

Goto(r, pc) == req' = [req EXCEPT ![r].pc = pc]

\* a destructuring default: `{ x = d } = req.body`
Default(opt, d) == IF opt = <<>> THEN d ELSE opt[1]

\* bcrypt.hash and bcrypt.compare: the hash is compared, never the password
PasswordHash(pw) == <<"bcrypt", pw>>
Compare(pw, hash) == PasswordHash(pw) = hash

\* sha256 of the token, taken to be free of collisions
HashToken(tok) == <<"sha256", tok>>

UserRow(id, email, pw) == [id |-> id, email |-> email, password_hash |-> PasswordHash(pw)]

\* jwt.sign({ userId, email }, JWT_SECRET, { expiresIn: '30d' })
GenerateToken(userId, email, now) ==
    [userId |-> userId, email |-> email, iat |-> now, exp |-> now + TokenDays,
     sig |-> "ok"]

SessionRowNoExpiry(userId, tok, now) ==
    [user_id |-> userId, token_hash |-> HashToken(tok), expires_at |-> now]

\* the row storeSession inserts: expires_at is 30 days after the insert
SessionRow(userId, tok, now) ==
    [user_id |-> userId, token_hash |-> HashToken(tok),
     expires_at |-> now + SessionDays]

\* the auth tables once users 1..n have registered, on day `at`
Registered(n, at) ==
    /\ users = [i \in 1..n |-> UserRow(i, Emails[i], "password1")]
    /\ user_sessions =
          [i \in 1..n |-> SessionRow(i, GenerateToken(i, Emails[i], at), at)]
    /\ issued = {GenerateToken(i, Emails[i], at) : i \in 1..n}

Init ==
    /\ Registered(Cardinality(Users), 0)
    /\ user_data = [k \in Keys |-> <<>>]
    /\ data_backups = <<>>
    /\ storage_stats = [u \in Users |-> <<>>]
    /\ conn = [c \in Conns |-> NoTx]
    /\ lastConn = 1
    /\ clock = 0
    /\ backup_seq = 0
    /\ faults = 0
    /\ req = [r \in Reqs |-> IdleReq]

----------------------------------------------------------------------------
(* updateStorageStats: shared by Save, Restore and Delete *)

UserRows(c, u) == {k \in Keys : k[1] = u /\ ViewData(c, k) # <<>>}

\* SUM(LENGTH(content::text)); parseInt(null) || 0 over no rows
TotalSize(c, u) ==
    Sum([k \in Keys |-> IF ViewData(c, k) # <<>> THEN Len(ViewData(c, k)[1].content)
                        ELSE 0],
        UserRows(c, u))

ThreadCount(c, u) == Cardinality(UserRows(c, u))

StatsRow(totalSize, threadCount) ==
    [total_size_bytes |-> totalSize, thread_count |-> threadCount]

\* where the handler continues after `await updateStorageStats(userId)`
AfterStats(r) == req[r].op \o "_commit"

\* the SELECT of updateStorageStats; its error is caught and logged, and the
\* function returns without the upsert
StatsSelect(r) ==
    /\ req[r].pc = "stats_select"
    /\ \E c \in Conns, err \in BOOLEAN :
        /\ CanUse(r, c)
        /\ Exec(c, err, "stmt")
        /\ conn' = IF err THEN Abort(c) ELSE conn
        /\ req' = IF err THEN [req EXCEPT ![r].pc = AfterStats(r)]
                  ELSE [req EXCEPT ![r].pc = "stats_upsert",
                                   ![r].totalSize = TotalSize(c, req[r].user),
                                   ![r].threadCount = ThreadCount(c, req[r].user)]
    /\ UNCHANGED <<tables, backup_seq>>

\* the upsert of updateStorageStats; its error is caught and logged too
StatsUpsert(r) ==
    /\ req[r].pc = "stats_upsert"
    /\ \E c \in Conns, err \in BOOLEAN :
        /\ CanUse(r, c)
        /\ Exec(c, err, "stmt")
        /\ ~err => ~StatsLocked(c, req[r].user)
        /\ LET row == <<StatsRow(req[r].totalSize, req[r].threadCount)>> IN
           IF err THEN conn' = Abort(c) /\ UNCHANGED storage_stats
           ELSE IF conn[c].open
           THEN /\ conn' = [conn EXCEPT ![c].wstats[req[r].user] = <<row>>]
                /\ UNCHANGED storage_stats
           ELSE /\ storage_stats' = [storage_stats EXCEPT ![req[r].user] = row]
                /\ UNCHANGED conn
        /\ Goto(r, AfterStats(r))
    /\ UNCHANGED <<user_data, data_backups, backup_seq>>

----------------------------------------------------------------------------
(* Statements shared in shape by the three writing handlers *)

\* `await db.query('BEGIN')`, in the outer try: its error is answered 500
\* without a ROLLBACK
TxBegin(r, next, msg) ==
    \E c \in Conns, err \in BOOLEAN :
        /\ CanUse(r, c)
        /\ Exec(c, err, "begin")
        /\ conn' = IF err THEN Abort(c) ELSE Begin(c)
        /\ IF err THEN Respond(r, 500, Error(msg)) ELSE Goto(r, next)
        /\ UNCHANGED <<tables, backup_seq>>

TxCommitNoRollback(r, rollback, body) ==
    \E c \in Conns, err \in BOOLEAN :
        /\ CanUse(r, c)
        /\ Exec(c, err, "end")
        /\ conn' = EndTx(c)
        /\ user_data' = IF err THEN user_data ELSE CommitData(c)
        /\ data_backups' = IF err THEN data_backups ELSE CommitBackups(c)
        /\ storage_stats' = IF err THEN storage_stats ELSE CommitStats(c)
        /\ IF err THEN Respond(r, 500, Error("")) ELSE Respond(r, 200, body)
        /\ UNCHANGED backup_seq

\* `await db.query('COMMIT')`; its error goes to the inner catch (ROLLBACK)
TxCommit(r, rollback, body) ==
    \E c \in Conns, err \in BOOLEAN :
        /\ CanUse(r, c)
        /\ Exec(c, err, "end")
        /\ conn' = EndTx(c)
        /\ user_data' = IF err THEN user_data ELSE CommitData(c)
        /\ data_backups' = IF err THEN data_backups ELSE CommitBackups(c)
        /\ storage_stats' = IF err THEN storage_stats ELSE CommitStats(c)
        /\ IF err THEN Goto(r, rollback) ELSE Respond(r, 200, body)
        /\ UNCHANGED backup_seq

\* the inner catch: `await db.query('ROLLBACK'); throw error`, answered 500 by
\* the outer catch (also when the ROLLBACK itself throws)
TxRollback(r, msg) ==
    \E c \in Conns, err \in BOOLEAN :
        /\ CanUse(r, c)
        /\ Exec(c, err, "end")
        /\ conn' = EndTx(c)
        /\ Respond(r, 500, Error(msg))
        /\ UNCHANGED <<tables, backup_seq>>

\* INSERT INTO data_backups of one row
InsertBackup(c, row) ==
    IF conn[c].open
    THEN /\ conn' = [conn EXCEPT ![c].wbackups = Append(@, row)]
         /\ UNCHANGED data_backups
    ELSE /\ data_backups' = Append(data_backups, row)
         /\ UNCHANGED conn

WriteDataKeepsRow(c, k, rows) ==
    IF conn[c].open
    THEN /\ conn' = [conn EXCEPT ![c].wdata[k] =
                        IF rows = <<>> THEN conn[c].wdata[k] ELSE <<rows>>]
         /\ UNCHANGED user_data
    ELSE /\ user_data' = [user_data EXCEPT ![k] = IF rows = <<>> THEN @ ELSE rows]
         /\ UNCHANGED conn

\* INSERT INTO user_data ... ON CONFLICT (user_id, thread_id) DO UPDATE, or DELETE
WriteData(c, k, rows) ==
    IF conn[c].open
    THEN /\ conn' = [conn EXCEPT ![c].wdata[k] = <<rows>>]
         /\ UNCHANGED user_data
    ELSE /\ user_data' = [user_data EXCEPT ![k] = rows]
         /\ UNCHANGED conn

UpsertInserts(existing, doc) == Append(existing, doc)

\* the rows of the key after INSERT ... ON CONFLICT (user_id, thread_id) DO UPDATE:
\* the conflict target is the key alone, so a row of any data_type is replaced
Upsert(existing, doc) == <<doc>>

BackupRow(id, k, doc, createdAt) ==
    [id |-> id, user_id |-> k[1], thread_id |-> k[2], data_type |-> doc.data_type,
     content |-> doc.content, version |-> doc.version, created_at |-> createdAt]

----------------------------------------------------------------------------
(* POST /api/sync : Save *)

MissingFields(threadId, dataType, content) ==
    threadId = EmptyThread \/ dataType = "" \/ content \in FalsyContents

SaveConflictOffByOne(rows, force, version) ==
    rows # <<>> /\ ~force /\ rows[1].version > version + 1

SaveConflictNotLess(rows, force, version) ==
    rows # <<>> /\ ~force /\ rows[1].version >= version

SaveConflictWhenForced(rows, force, version) ==
    rows # <<>> /\ force /\ rows[1].version > version

SaveConflictNever(rows, force, version) == FALSE

\* `!force && existing.version > version`, for an existing row
SaveConflict(rows, force, version) ==
    rows # <<>> /\ ~force /\ rows[1].version > version

ConflictBody(existing) ==
    [success |-> FALSE, conflict |-> TRUE, error |-> "Version conflict",
     serverVersion |-> existing.version, serverData |-> existing.content,
     serverUpdatedAt |-> existing.updated_at]

SaveBody(r) == [success |-> TRUE, version |-> req[r].version]

SaveError == "Internal server error during sync"

\* the request bodies tried: every complete valid body, and one body with each
\* single field missing or invalid
SaveBase(t) == [threadId |-> t, dataType |-> "document", content |-> "[1]",
                version |-> <<1>>, force |-> <<FALSE>>]

SaveBodies(threads, dataTypes) ==
    [threadId : threads, dataType : dataTypes,
     content : Contents, version : {<<v>> : v \in 1..MaxVersion},
     force : {<<f>> : f \in BOOLEAN}]
    \cup {[SaveBase(t) EXCEPT !.threadId = EmptyThread] : t \in threads}
    \cup {[SaveBase(t) EXCEPT !.dataType = dt] :
            t \in threads, dt \in DataTypeInputs \ ValidDataTypes}
    \cup {[SaveBase(t) EXCEPT !.content = c] :
            t \in threads, c \in ContentInputs \ Contents}
    \cup {[SaveBase(t) EXCEPT !.version = <<>>] : t \in threads}
    \cup {[SaveBase(t) EXCEPT !.force = <<>>] : t \in threads}

StartSave(r, sc) ==
    /\ Enter(r, sc)
    /\ \E u \in Principals(r, sc), b \in sc.saves :
        LET new == [IdleReq EXCEPT !.op = "save", !.user = u, !.thread = b.threadId,
                                   !.dataType = b.dataType, !.content = b.content,
                                   !.version = Default(b.version, DefaultVersion),
                                   !.force = Default(b.force, FALSE)]
            bad(msg) == [new EXCEPT !.pc = "done", !.status = 400, !.body = Error(msg)]
        IN  req' = [req EXCEPT ![r] =
                IF MissingFields(b.threadId, b.dataType, b.content)
                THEN bad("Missing required fields: threadId, dataType, content")
                ELSE IF b.dataType \notin ValidDataTypes
                THEN bad("Invalid dataType. Must be: spreadsheet, document, or both")
                ELSE [new EXCEPT !.pc = "save_select"]]
    /\ UNCHANGED <<tables, conn, lastConn, backup_seq, faults>>

\* the SELECT before the transaction, and the conflict check on its result
SaveSelect(r) ==
    /\ req[r].pc = "save_select"
    /\ \E c \in Conns, err \in BOOLEAN :
        /\ CanUse(r, c)
        /\ Exec(c, err, "stmt")
        /\ conn' = IF err THEN Abort(c) ELSE conn
        /\ LET rows == ViewData(c, Key(r)) IN
           IF err THEN Respond(r, 500, Error(SaveError))
           ELSE IF SaveConflict(rows, req[r].force, req[r].version)
           THEN Respond(r, 409, ConflictBody(rows[1]))
           ELSE req' = [req EXCEPT ![r].pc = "save_begin", ![r].rows = rows]
    /\ UNCHANGED <<tables, backup_seq>>

SaveBegin(r) ==
    /\ req[r].pc = "save_begin"
    /\ TxBegin(r, IF req[r].rows # <<>> THEN "save_backup" ELSE "save_upsert", SaveError)

\* INSERT INTO data_backups ... SELECT ... FROM user_data: copies the row of the
\* key as it is now, with created_at = its updated_at
SaveBackup(r) ==
    /\ req[r].pc = "save_backup"
    /\ \E c \in Conns, err \in BOOLEAN :
        /\ CanUse(r, c)
        /\ Exec(c, err, "stmt")
        /\ LET cur == ViewData(c, Key(r)) IN
           IF err THEN conn' = Abort(c) /\ UNCHANGED <<data_backups, backup_seq>>
           ELSE IF cur = <<>> THEN UNCHANGED <<conn, data_backups, backup_seq>>
           ELSE /\ InsertBackup(c, BackupRow(backup_seq + 1, Key(r), cur[1],
                                             cur[1].updated_at))
                /\ backup_seq' = backup_seq + 1
        /\ Goto(r, IF err THEN "save_rollback" ELSE "save_upsert")
    /\ UNCHANGED <<user_data, storage_stats>>

SaveDocBumped(r, now) ==
    [data_type |-> req[r].dataType, content |-> req[r].content,
     version |-> req[r].version + 1, updated_at |-> now]

\* the upsert's row: VALUES ($3, $4, $5, NOW()), the same on both branches
SaveDoc(r, now) ==
    [data_type |-> req[r].dataType, content |-> req[r].content,
     version |-> req[r].version, updated_at |-> now]

SaveUpsert(r) ==
    /\ req[r].pc = "save_upsert"
    /\ \E c \in Conns, err \in BOOLEAN :
        /\ CanUse(r, c)
        /\ Exec(c, err, "stmt")
        /\ ~err => ~Locked(c, Key(r))
        /\ IF err THEN conn' = Abort(c) /\ UNCHANGED user_data
           ELSE WriteData(c, Key(r), Upsert(ViewData(c, Key(r)), SaveDoc(r, Now(c))))
        /\ Goto(r, IF err THEN "save_rollback" ELSE "stats_select")
    /\ UNCHANGED <<data_backups, storage_stats, backup_seq>>

SaveCommit(r) ==
    /\ req[r].pc = "save_commit"
    /\ TxCommit(r, "save_rollback", SaveBody(r))

SaveRollback(r) ==
    /\ req[r].pc = "save_rollback"
    /\ TxRollback(r, SaveError)

----------------------------------------------------------------------------
(* GET /api/sync/:threadId : Load *)

LoadError == "Internal server error while retrieving data"

LoadBody(data) ==
    [success |-> TRUE, data |-> data.content, version |-> data.version,
     updated_at |-> data.updated_at, data_type |-> data.data_type]

LoadOutcomeDocumentsOnly(rows) ==
    IF rows = <<>> \/ rows[1].data_type # "document"
    THEN [status |-> 404, body |-> Error("Data not found")]
    ELSE [status |-> 200, body |-> LoadBody(rows[1])]

\* the answer to the rows the SELECT returned
LoadOutcome(rows) ==
    IF rows = <<>> THEN [status |-> 404, body |-> Error("Data not found")]
    ELSE [status |-> 200, body |-> LoadBody(rows[1])]

\* `const { dataType = 'both' } = req.query`, then the validation
\* the GET routes of one path segment, in the order the router registers them;
\* the router runs the first one that matches, and neither handler calls next()
GetRoutes == <<"/:threadId", "/stats">>

StatsSegment == "stats"

\* a route parameter matches any segment, a literal only itself
Matches(route, seg) == IF route = "/stats" THEN seg = StatsSegment ELSE TRUE

Route(seg) ==
    LET i == CHOOSE i \in 1..Len(GetRoutes) :
                /\ Matches(GetRoutes[i], seg)
                /\ \A j \in 1..(i - 1) : ~Matches(GetRoutes[j], seg)
    IN  GetRoutes[i]

\* GET /api/sync/<t>, dispatched to this handler
StartLoad(r, sc) ==
    /\ Enter(r, sc)
    /\ \E u \in Principals(r, sc), t \in sc.threads, dtin \in sc.loads :
        /\ Route(t) = "/:threadId"
        /\ LET dt == Default(dtin, "both")
               new == [IdleReq EXCEPT !.op = "load", !.user = u, !.thread = t,
                                      !.dataType = dt]
           IN  req' = [req EXCEPT ![r] =
                   IF dt \notin ValidDataTypes
                   THEN [new EXCEPT !.pc = "done", !.status = 400, !.body =
                           Error("Invalid dataType. Must be: spreadsheet, document, or both")]
                   ELSE [new EXCEPT !.pc = "load_select"]]
    /\ UNCHANGED <<tables, conn, lastConn, backup_seq, faults>>

LoadSelect(r) ==
    /\ req[r].pc = "load_select"
    /\ \E c \in Conns, err \in BOOLEAN :
        /\ CanUse(r, c)
        /\ Exec(c, err, "stmt")
        /\ conn' = IF err THEN Abort(c) ELSE conn
        /\ LET out == LoadOutcome(ViewData(c, Key(r))) IN
           IF err THEN Respond(r, 500, Error(LoadError))
           ELSE Respond(r, out.status, out.body)
    /\ UNCHANGED <<tables, backup_seq>>

----------------------------------------------------------------------------
(* GET /api/sync/stats : Stats.  Route never dispatches a request to this      *)
(* handler, so it has no action; this is the answer its three SELECTs build    *)
(* from the committed tables.                                                  *)

StatsData(u) ==
    [storageStats |-> storage_stats[u],
     threadCount |-> Cardinality({k \in Keys : k[1] = u /\ user_data[k] # <<>>}),
     backupCount |-> Cardinality({i \in 1..Len(data_backups) :
                                    data_backups[i].user_id = u})]

StatsBody(u) == [success |-> TRUE, data |-> StatsData(u)]

----------------------------------------------------------------------------
(* GET /api/sync/:threadId/history : History *)

HistoryError == "Internal server error while retrieving history"

Min(a, b) == IF a < b THEN a ELSE b

DescOrdersAscending(S) ==
    {f \in [1..Cardinality(S) -> S] :
        /\ \A i, j \in 1..Cardinality(S) : i < j =>
            /\ f[i] # f[j]
            /\ f[i].created_at <= f[j].created_at}

\* the rows of (user, thread) ORDER BY created_at DESC: every order the store may
\* return (rows of equal created_at come in any order)
DescOrders(S) ==
    {f \in [1..Cardinality(S) -> S] :
        /\ \A i, j \in 1..Cardinality(S) : i < j =>
            /\ f[i] # f[j]
            /\ f[i].created_at >= f[j].created_at}

\* ... FROM data_backups WHERE user_id = $1 AND thread_id = $2
ThreadBackupsAnyUser(rows, k) == {b \in Range(rows) : b.thread_id = k[2]}

ThreadBackups(rows, k) ==
    {b \in Range(rows) : b.user_id = k[1] /\ b.thread_id = k[2]}

LimitOneMore(rows, n) == SubSeq(rows, 1, Min(n + 1, Len(rows)))

\* ... LIMIT n
Limit(rows, n) == SubSeq(rows, 1, Min(n, Len(rows)))

\* `const { limit = 10 } = req.query` and parseInt(limit); the query values tried
\* are decimal integers
HistoryLimit(r) == Default(req[r].limit, DefaultLimit)

HistoryBody(mainRows, history) ==
    [success |-> TRUE, current |-> mainRows, history |-> history]

StartHistory(r, sc) ==
    /\ Enter(r, sc)
    /\ \E u \in Principals(r, sc), t \in sc.threads, lim \in sc.limits :
        req' = [req EXCEPT ![r] =
                  [IdleReq EXCEPT !.op = "history", !.pc = "history_main", !.user = u,
                                  !.thread = t, !.limit = lim]]
    /\ UNCHANGED <<tables, conn, lastConn, backup_seq, faults>>

HistoryMain(r) ==
    /\ req[r].pc = "history_main"
    /\ \E c \in Conns, err \in BOOLEAN :
        /\ CanUse(r, c)
        /\ Exec(c, err, "stmt")
        /\ conn' = IF err THEN Abort(c) ELSE conn
        /\ IF err THEN Respond(r, 500, Error(HistoryError))
           ELSE req' = [req EXCEPT ![r].pc = "history_backups",
                                   ![r].rows = ViewData(c, Key(r))]
    /\ UNCHANGED <<tables, backup_seq>>

HistoryBackups(r) ==
    /\ req[r].pc = "history_backups"
    /\ \E c \in Conns, err \in BOOLEAN :
        /\ CanUse(r, c)
        /\ Exec(c, err, "stmt")
        /\ conn' = IF err THEN Abort(c) ELSE conn
        \* the store rejects a negative LIMIT
        /\ IF err \/ HistoryLimit(r) < 0 THEN Respond(r, 500, Error(HistoryError))
           ELSE \E ord \in DescOrders(ThreadBackups(ViewBackups(c), Key(r))) :
                    Respond(r, 200, HistoryBody(req[r].rows,
                                                Limit(ord, HistoryLimit(r))))
    /\ UNCHANGED <<tables, backup_seq>>

----------------------------------------------------------------------------
(* POST /api/sync/:threadId/restore : Restore *)

RestoreError == "Internal server error during restore"

BackupLookupAnyUser(c, id, u) ==
    SelectSeq(ViewBackups(c), LAMBDA b : b.id = id)

\* SELECT * FROM data_backups WHERE id = $1 AND user_id = $2
BackupLookup(c, id, u) ==
    SelectSeq(ViewBackups(c), LAMBDA b : b.id = id /\ b.user_id = u)

RestoreDocSameVersion(cur, backupData, now) ==
    [data_type |-> backupData.data_type, content |-> backupData.content,
     version |-> backupData.version, updated_at |-> now]

RestoreDocAlwaysBumped(cur, backupData, now) ==
    [data_type |-> backupData.data_type, content |-> backupData.content,
     version |-> backupData.version + 1, updated_at |-> now]

\* the upsert's row: VALUES (..., backup.version, NOW()), and on the update
\* branch version = EXCLUDED.version + 1
RestoreDoc(cur, backupData, now) ==
    [data_type |-> backupData.data_type, content |-> backupData.content,
     version |-> IF cur = <<>> THEN backupData.version ELSE backupData.version + 1,
     updated_at |-> now]

RestoreBody(r) == [success |-> TRUE, version |-> req[r].backupRows[1].version]

\* backupId 0 is a missing backupId
StartRestore(r, sc) ==
    /\ Enter(r, sc)
    /\ \E u \in Principals(r, sc), t \in sc.threads, id \in 0..(backup_seq + 1) :
        LET new == [IdleReq EXCEPT !.op = "restore", !.user = u, !.thread = t,
                                   !.backupId = id]
        IN  req' = [req EXCEPT ![r] =
                IF id = 0
                THEN [new EXCEPT !.pc = "done", !.status = 400,
                                 !.body = Error("backupId is required")]
                ELSE [new EXCEPT !.pc = "restore_lookup"]]
    /\ UNCHANGED <<tables, conn, lastConn, backup_seq, faults>>

RestoreLookup(r) ==
    /\ req[r].pc = "restore_lookup"
    /\ \E c \in Conns, err \in BOOLEAN :
        /\ CanUse(r, c)
        /\ Exec(c, err, "stmt")
        /\ conn' = IF err THEN Abort(c) ELSE conn
        /\ LET backup == BackupLookup(c, req[r].backupId, req[r].user) IN
           IF err THEN Respond(r, 500, Error(RestoreError))
           ELSE IF backup = <<>> THEN Respond(r, 404, Error("Backup not found"))
           ELSE req' = [req EXCEPT ![r].pc = "restore_begin", ![r].backupRows = backup]
    /\ UNCHANGED <<tables, backup_seq>>

RestoreBegin(r) ==
    /\ req[r].pc = "restore_begin"
    /\ TxBegin(r, "restore_select", RestoreError)

\* the SELECT of the current row, inside the inner try
TxSelect(r, backup, write, rollback) ==
    \E c \in Conns, err \in BOOLEAN :
        /\ CanUse(r, c)
        /\ Exec(c, err, "stmt")
        /\ conn' = IF err THEN Abort(c) ELSE conn
        /\ LET rows == ViewData(c, Key(r)) IN
           req' = IF err THEN [req EXCEPT ![r].pc = rollback]
                  ELSE [req EXCEPT ![r].rows = rows,
                                   ![r].pc = IF rows # <<>> THEN backup ELSE write]
        /\ UNCHANGED <<tables, backup_seq>>

\* INSERT INTO data_backups VALUES (currentData.rows[0]..., NOW())
TxBackup(r, write, rollback) ==
    \E c \in Conns, err \in BOOLEAN :
        /\ CanUse(r, c)
        /\ Exec(c, err, "stmt")
        /\ IF err THEN conn' = Abort(c) /\ UNCHANGED <<data_backups, backup_seq>>
           ELSE /\ InsertBackup(c, BackupRow(backup_seq + 1, Key(r), req[r].rows[1],
                                             Now(c)))
                /\ backup_seq' = backup_seq + 1
        /\ Goto(r, IF err THEN rollback ELSE write)
        /\ UNCHANGED <<user_data, storage_stats>>

RestoreSelect(r) ==
    /\ req[r].pc = "restore_select"
    /\ TxSelect(r, "restore_backup", "restore_upsert", "restore_rollback")

RestoreBackup(r) ==
    /\ req[r].pc = "restore_backup"
    /\ TxBackup(r, "restore_upsert", "restore_rollback")

RestoreUpsert(r) ==
    /\ req[r].pc = "restore_upsert"
    /\ \E c \in Conns, err \in BOOLEAN :
        /\ CanUse(r, c)
        /\ Exec(c, err, "stmt")
        /\ ~err => ~Locked(c, Key(r))
        /\ IF err THEN conn' = Abort(c) /\ UNCHANGED user_data
           ELSE WriteData(c, Key(r),
                          Upsert(ViewData(c, Key(r)),
                                 RestoreDoc(ViewData(c, Key(r)),
                                            req[r].backupRows[1], Now(c))))
        /\ Goto(r, IF err THEN "restore_rollback" ELSE "stats_select")
    /\ UNCHANGED <<data_backups, storage_stats, backup_seq>>

RestoreCommit(r) ==
    /\ req[r].pc = "restore_commit"
    /\ TxCommit(r, "restore_rollback", RestoreBody(r))

RestoreRollback(r) ==
    /\ req[r].pc = "restore_rollback"
    /\ TxRollback(r, RestoreError)

----------------------------------------------------------------------------
(* DELETE /api/sync/:threadId : Delete *)

DeleteError == "Internal server error during deletion"

DeleteBody == [success |-> TRUE, message |-> "Data deleted successfully"]

StartDelete(r, sc) ==
    /\ Enter(r, sc)
    /\ \E u \in Principals(r, sc), t \in sc.threads :
        req' = [req EXCEPT ![r] =
                  [IdleReq EXCEPT !.op = "delete", !.pc = "delete_begin", !.user = u,
                                  !.thread = t]]
    /\ UNCHANGED <<tables, conn, lastConn, backup_seq, faults>>

DeleteBegin(r) ==
    /\ req[r].pc = "delete_begin"
    /\ TxBegin(r, "delete_select", DeleteError)

DeleteSelect(r) ==
    /\ req[r].pc = "delete_select"
    /\ TxSelect(r, "delete_backup", "delete_row", "delete_rollback")

DeleteBackup(r) ==
    /\ req[r].pc = "delete_backup"
    /\ TxBackup(r, "delete_row", "delete_rollback")

\* DELETE FROM user_data WHERE user_id = $1 AND thread_id = $2; waits for the row
\* lock only when there is a row to delete
DeleteRow(r) ==
    /\ req[r].pc = "delete_row"
    /\ \E c \in Conns, err \in BOOLEAN :
        /\ CanUse(r, c)
        /\ Exec(c, err, "stmt")
        /\ LET cur == ViewData(c, Key(r)) IN
           /\ ~err /\ cur # <<>> => ~Locked(c, Key(r))
           /\ IF err THEN conn' = Abort(c) /\ UNCHANGED user_data
              ELSE IF cur = <<>> THEN UNCHANGED <<conn, user_data>>
              ELSE WriteData(c, Key(r), <<>>)
           /\ req' = IF err THEN [req EXCEPT ![r].pc = "delete_rollback"]
                     ELSE [req EXCEPT ![r].pc = "stats_select",
                                      ![r].rowCount = Len(cur)]
    /\ UNCHANGED <<data_backups, storage_stats, backup_seq>>

DeleteCommit(r) ==
    /\ req[r].pc = "delete_commit"
    /\ TxCommit(r, "delete_rollback", DeleteBody)

DeleteRollback(r) ==
    /\ req[r].pc = "delete_rollback"
    /\ TxRollback(r, DeleteError)

----------------------------------------------------------------------------
(* Tokens, the requireAuth middleware, the auth router and the nightly sweep *)

\* email.toLowerCase()
Lower(e) == IF e = "A@x.io" THEN "a@x.io" ELSE e

\* Joi.string().email()
ValidEmail(e) == e \notin {"bad", ""}

\* a token with the payload of tok and a signature made without JWT_SECRET
Forged(tok) == [tok EXCEPT !.sig = "bad"]

\* the Authorization header as its words; <<>> is a request without the header
Schemes == {"Bearer", "Basic"}
Headers ==
    {<<>>, <<"Bearer">>}
    \cup {<<sch, tok>> : sch \in Schemes,
                         tok \in issued \cup {Forged(t) : t \in issued} \cup {Garbage}}

\* `authHeader && authHeader.split(' ')[1]`: the second word, whatever the first
HeaderToken(h) == IF Len(h) >= 2 THEN h[2] ELSE NoToken

VerifyTokenIgnoresExpiry(tok, now) == tok.sig = "ok"

\* jwt.verify: the signature is the server's and the token has not expired;
\* verifyToken turns every failure into null
VerifyToken(tok, now) == tok.sig = "ok" /\ now < tok.exp

\* SELECT ... FROM users WHERE id = $1
UserById(id) == SelectSeq(users, LAMBDA u : u.id = id)

\* SELECT ... FROM users WHERE email = $1
UserByEmail(e) == SelectSeq(users, LAMBDA u : u.email = e)

\* requests since the first day of the run or of the month after it
Arrived == (clock - SeedAuthClock) % SessionDays

\* a request arrives at a route; it takes the first free slot
Arrive(r, sc) ==
    /\ r \in sc.reqs
    /\ ~InFlight(r)
    /\ \A r2 \in sc.reqs : r2 < r => InFlight(r2)
    /\ Arrived < MaxReqsAuth
    /\ clock' = clock + 1
    /\ UNCHANGED <<tables, conn, lastConn, backup_seq, faults, authVars>>

\* one pool.query of the middleware or of the auth router; requests come one at a
\* time in the specification that runs them, so no transaction block is open
AuthQuery(r, c, err) ==
    /\ CanUse(r, c)
    /\ ~conn[c].open
    /\ Run(c, err, "stmt")
    /\ UNCHANGED <<tables, conn, backup_seq>>

AuthError == "Authentication failed"

\* authenticateToken up to its first await, in front of every route of the sync
\* router
AuthArrive(r, sc) ==
    /\ Arrive(r, sc)
    /\ \E h \in Headers :
        LET tok == HeaderToken(h)
            new == [IdleReq EXCEPT !.op = "sync", !.token = tok]
            bad(status, msg) ==
                [new EXCEPT !.pc = "done", !.status = status, !.body = Error(msg)]
        IN  req' = [req EXCEPT ![r] =
                IF tok = NoToken THEN bad(401, "Access token required")
                ELSE IF ~VerifyToken(tok, clock') THEN bad(403, "Invalid or expired token")
                ELSE [new EXCEPT !.pc = "auth_user"]]

\* the SELECT of the user the token names; its row becomes req.user
AuthUser(r) ==
    /\ req[r].pc = "auth_user"
    /\ \E c \in Conns, err \in BOOLEAN :
        /\ AuthQuery(r, c, err)
        /\ LET rows == UserById(req[r].token.userId) IN
           IF err THEN Respond(r, 500, Error(AuthError))
           ELSE IF rows = <<>> THEN Respond(r, 403, Error("User not found"))
           ELSE req' = [req EXCEPT ![r].pc = "auth_touch", ![r].user = rows[1].id]
    /\ UNCHANGED authVars

\* UPDATE user_sessions SET last_used = NOW() WHERE token_hash = $1 (last_used is
\* not a column of the model: the rows stay as they are), then next()
AuthTouch(r) ==
    /\ req[r].pc = "auth_touch"
    /\ \E c \in Conns, err \in BOOLEAN :
        /\ AuthQuery(r, c, err)
        /\ IF err THEN Respond(r, 500, Error(AuthError)) ELSE Goto(r, "auth_next")
    /\ UNCHANGED authVars

RegisterError == "Registration failed"

\* gen_random_uuid(): an id that no row and no token has carried; registration
\* stops when the user ids of the model are used up
NextUserId ==
    LET used == {u.id : u \in Range(users)} \cup {t.userId : t \in issued} \cup {0}
    IN  1 + CHOOSE x \in used : \A y \in used : y <= x

AuthBody(id, email, tok, expiresAt) ==
    [success |-> TRUE, user |-> [id |-> id, email |-> email], token |-> tok,
     expires_at |-> expiresAt]

\* POST /api/auth/register
StartRegister(r, sc) ==
    /\ Arrive(r, sc)
    /\ NextUserId \in Users
    /\ \E e \in sc.emails, p \in sc.passwords :
        LET new == [IdleReq EXCEPT !.op = "register", !.email = e, !.password = p] IN
        req' = [req EXCEPT ![r] =
            IF ~ValidEmail(e) \/ Len(p) < MinPassword
            THEN [new EXCEPT !.pc = "done", !.status = 400, !.body = Error("validation")]
            ELSE [new EXCEPT !.pc = "register_select"]]

RegisterSelect(r) ==
    /\ req[r].pc = "register_select"
    /\ \E c \in Conns, err \in BOOLEAN :
        /\ AuthQuery(r, c, err)
        /\ IF err THEN Respond(r, 500, Error(RegisterError))
           ELSE IF UserByEmail(Lower(req[r].email)) # <<>>
           THEN Respond(r, 409, Error("User with this email already exists"))
           ELSE Goto(r, "register_insert")
    /\ UNCHANGED authVars

\* INSERT INTO users ... RETURNING id, email, ...
RegisterInsert(r) ==
    /\ req[r].pc = "register_insert"
    /\ \E c \in Conns, err \in BOOLEAN :
        /\ AuthQuery(r, c, err)
        /\ IF err
           THEN Respond(r, 500, Error(RegisterError)) /\ UNCHANGED users
           ELSE /\ users' = Append(users, UserRow(NextUserId, Lower(req[r].email),
                                                  req[r].password))
                /\ req' = [req EXCEPT ![r].pc = "register_session",
                                      ![r].user = NextUserId,
                                      ![r].email = Lower(req[r].email)]
    /\ UNCHANGED <<user_sessions, issued>>

\* generateToken, storeSession and the response carrying the token; an error of
\* the INSERT is rethrown by storeSession and answered 500 by the route
StoreSession(r, status, msg) ==
    /\ \E c \in Conns, err \in BOOLEAN :
        /\ AuthQuery(r, c, err)
        /\ LET tok == GenerateToken(req[r].user, req[r].email, clock) IN
           IF err
           THEN Respond(r, 500, Error(msg)) /\ UNCHANGED <<user_sessions, issued>>
           ELSE /\ user_sessions' =
                      Append(user_sessions, SessionRow(req[r].user, tok, clock))
                /\ issued' = issued \cup {tok}
                /\ Respond(r, status, AuthBody(req[r].user, req[r].email, tok,
                                               clock + SessionDays))
    /\ UNCHANGED users

RegisterSession(r) ==
    /\ req[r].pc = "register_session"
    /\ StoreSession(r, 201, RegisterError)

LoginError == "Login failed"

\* POST /api/auth/login
StartLogin(r, sc) ==
    /\ Arrive(r, sc)
    /\ \E e \in sc.emails, p \in sc.passwords :
        LET new == [IdleReq EXCEPT !.op = "login", !.email = e, !.password = p] IN
        req' = [req EXCEPT ![r] =
            IF ~ValidEmail(e) \/ p = ""
            THEN [new EXCEPT !.pc = "done", !.status = 400, !.body = Error("validation")]
            ELSE [new EXCEPT !.pc = "login_select"]]

\* the SELECT by email and bcrypt.compare on its row
LoginSelect(r) ==
    /\ req[r].pc = "login_select"
    /\ \E c \in Conns, err \in BOOLEAN :
        /\ AuthQuery(r, c, err)
        /\ LET rows == UserByEmail(Lower(req[r].email)) IN
           IF err THEN Respond(r, 500, Error(LoginError))
           ELSE IF rows = <<>> \/ ~Compare(req[r].password, rows[1].password_hash)
           THEN Respond(r, 401, Error("Invalid email or password"))
           ELSE req' = [req EXCEPT ![r].pc = "login_touch", ![r].user = rows[1].id,
                                   ![r].email = rows[1].email]
    /\ UNCHANGED authVars

\* UPDATE users SET last_login = NOW() WHERE id = $1 (last_login is not a column
\* of the model)
LoginTouch(r) ==
    /\ req[r].pc = "login_touch"
    /\ \E c \in Conns, err \in BOOLEAN :
        /\ AuthQuery(r, c, err)
        /\ IF err THEN Respond(r, 500, Error(LoginError)) ELSE Goto(r, "login_session")
    /\ UNCHANGED authVars

LoginSession(r) ==
    /\ req[r].pc = "login_session"
    /\ StoreSession(r, 200, LoginError)

VerifyBody(user) == [success |-> TRUE, user |-> user]

\* GET /api/auth/verify, registered without a middleware: nothing has set
\* req.user when the handler runs
VerifyReqUser(tok) == 0

VerifyOutcome(tok) ==
    IF tok = NoToken THEN [status |-> 401, body |-> Error("Token required")]
    ELSE IF VerifyReqUser(tok) # 0
    THEN [status |-> 200, body |-> VerifyBody(VerifyReqUser(tok))]
    ELSE [status |-> 401, body |-> Error("Invalid token")]

StartVerify(r, sc) ==
    /\ Arrive(r, sc)
    /\ \E h \in Headers :
        LET tok == HeaderToken(h)
            out == VerifyOutcome(tok)
        IN  req' = [req EXCEPT ![r] =
                [IdleReq EXCEPT !.op = "verify", !.token = tok, !.pc = "done",
                                !.status = out.status, !.body = out.body]]

LogoutBody == [success |-> TRUE, message |-> "Logged out successfully"]

\* POST /api/auth/logout, registered without a middleware
StartLogout(r, sc) ==
    /\ Arrive(r, sc)
    /\ \E h \in Headers :
        LET tok == HeaderToken(h)
            new == [IdleReq EXCEPT !.op = "logout", !.token = tok]
        IN  req' = [req EXCEPT ![r] =
                IF tok = NoToken
                THEN [new EXCEPT !.pc = "done", !.status = 200, !.body = LogoutBody]
                ELSE [new EXCEPT !.pc = "logout_delete"]]

\* the rows left by DELETE FROM user_sessions WHERE token_hash = $1
LogoutKeeps(rows, tok) ==
    SelectSeq(rows, LAMBDA x : x.token_hash # HashToken(tok))

LogoutDelete(r) ==
    /\ req[r].pc = "logout_delete"
    /\ \E c \in Conns, err \in BOOLEAN :
        /\ AuthQuery(r, c, err)
        /\ IF err
           THEN Respond(r, 500, Error("Logout failed")) /\ UNCHANGED user_sessions
           ELSE /\ user_sessions' = LogoutKeeps(user_sessions, req[r].token)
                /\ Respond(r, 200, LogoutBody)
    /\ UNCHANGED <<users, issued>>

\* the rows left by DELETE FROM user_sessions WHERE expires_at < NOW()
SweepKeeps(rows, now) == SelectSeq(rows, LAMBDA x : ~(x.expires_at < now))

\* cleanupExpiredSessions, run by cron at 02:00, taken to fall between two
\* requests; an error of the statement is logged and nothing else
CleanupExpiredSessions ==
    /\ \A r \in Reqs : ~InFlight(r)
    /\ \E c \in Conns, err \in BOOLEAN :
        /\ c = lastConn /\ ~conn[c].open
        /\ Run(c, err, "stmt")
        /\ user_sessions' = IF err THEN user_sessions
                            ELSE SweepKeeps(user_sessions, clock)
    /\ UNCHANGED <<tables, conn, backup_seq, req, users, issued>>

\* thirty days pass without a request
MonthPasses ==
    /\ \A r \in Reqs : ~InFlight(r)
    /\ clock < SessionDays
    /\ clock' = clock + SessionDays
    /\ UNCHANGED <<tables, conn, lastConn, backup_seq, faults, req, authVars>>

\* the row of user u is deleted from users by the operator of the store, between
\* two requests; every table refers to users(id) ON DELETE CASCADE
DeleteUser(u) ==
    /\ \A r \in Reqs : ~InFlight(r)
    /\ UserById(u) # <<>>
    /\ users' = SelectSeq(users, LAMBDA x : x.id # u)
    /\ user_sessions' = SelectSeq(user_sessions, LAMBDA x : x.user_id # u)
    /\ user_data' = [k \in Keys |-> IF k[1] = u THEN <<>> ELSE user_data[k]]
    /\ data_backups' = SelectSeq(data_backups, LAMBDA b : b.user_id # u)
    /\ storage_stats' = [storage_stats EXCEPT ![u] = <<>>]
    /\ UNCHANGED <<conn, lastConn, clock, backup_seq, faults, req, issued>>

AuthStep(r, sc) ==
    \/ AuthArrive(r, sc)
    \/ AuthUser(r)
    \/ AuthTouch(r)
    \/ StartRegister(r, sc)
    \/ RegisterSelect(r)
    \/ RegisterInsert(r)
    \/ RegisterSession(r)
    \/ StartLogin(r, sc)
    \/ LoginSelect(r)
    \/ LoginTouch(r)
    \/ LoginSession(r)
    \/ StartVerify(r, sc)
    \/ StartLogout(r, sc)
    \/ LogoutDelete(r)

----------------------------------------------------------------------------

\* the scope of a specification: the request slots (requests in flight at a
\* time), the number of requests admitted, and the inputs tried
ScopeSeq ==
    [auth |-> FALSE, reqs |-> {1}, maxClock |-> MaxReqsSeq, users |-> {1}, threads |-> {"t1"},
     saves |-> SaveBodies({"t1"}, DataTypeInputs \cap ValidDataTypes),
     loads |-> Optional(DataTypeInputs \ {""}),
     limits |-> Optional({1})]

ScopeConc ==
    [auth |-> FALSE, reqs |-> Reqs, maxClock |-> SeedClock + MaxReqs, users |-> {1},
     threads |-> {"t1"},
     saves |-> {[SaveBase("t1") EXCEPT !.version = <<v>>] : v \in 1..MaxVersion}
               \cup {[SaveBase("t1") EXCEPT !.dataType = "both", !.content = "[1, 2]",
                                             !.force = <<TRUE>>]},
     loads |-> {<<>>},
     limits |-> {<<>>}]

\* one request at a time, two users and two threads each
ScopeMulti ==
    [auth |-> FALSE, reqs |-> {1}, maxClock |-> SeedClock + MaxReqsMulti, users |-> Users,
     threads |-> Threads,
     saves |-> {[SaveBase(t) EXCEPT !.content = c] : t \in Threads, c \in Contents},
     loads |-> {<<>>},
     limits |-> Optional({0, 1, -1})]

Step(r, sc) ==
    \/ StartSave(r, sc)
    \/ SaveSelect(r)
    \/ SaveBegin(r)
    \/ SaveBackup(r)
    \/ SaveUpsert(r)
    \/ SaveCommit(r)
    \/ SaveRollback(r)
    \/ StartLoad(r, sc)
    \/ LoadSelect(r)
    \/ StartHistory(r, sc)
    \/ HistoryMain(r)
    \/ HistoryBackups(r)
    \/ StartRestore(r, sc)
    \/ RestoreLookup(r)
    \/ RestoreBegin(r)
    \/ RestoreSelect(r)
    \/ RestoreBackup(r)
    \/ RestoreUpsert(r)
    \/ RestoreCommit(r)
    \/ RestoreRollback(r)
    \/ StartDelete(r, sc)
    \/ DeleteBegin(r)
    \/ DeleteSelect(r)
    \/ DeleteBackup(r)
    \/ DeleteRow(r)
    \/ DeleteCommit(r)
    \/ DeleteRollback(r)
    \/ StatsSelect(r)
    \/ StatsUpsert(r)

\* a store in use: thread "t1" of user 1 was saved once (document, "[1]", version 1) and then
\* deleted, which SpecSeq reaches from the empty store (SeedReached)
InitUsed ==
    /\ Registered(Cardinality(Users), 0)
    /\ user_data = [k \in Keys |-> <<>>]
    /\ data_backups = <<BackupRow(1, <<1, "t1">>,
                                  [data_type |-> "document", content |-> "[1]",
                                   version |-> 1], SeedClock)>>
    /\ storage_stats = [u \in Users |-> IF u = 1 THEN <<StatsRow(0, 0)>> ELSE <<>>]
    /\ conn = [c \in Conns |-> NoTx]
    /\ lastConn = 1
    /\ clock = SeedClock
    /\ backup_seq = 1
    /\ faults = 0
    /\ req = [r \in Reqs |-> IdleReq]

\* one request at a time, each route of the sync router behind requireAuth, and the
\* auth router; at most two users
ScopeAuth ==
    [auth |-> TRUE, reqs |-> {1}, maxClock |-> SeedAuthClock + MaxReqsAuth,
     users |-> Users, threads |-> {"t1"},
     saves |-> {SaveBase("t1")},
     loads |-> {<<>>},
     limits |-> {<<>>},
     emails |-> EmailInputs,
     passwords |-> PasswordInputs]

\* user 1 has registered on the first day and holds the token of that response
InitAuth ==
    /\ Registered(1, SeedAuthClock)
    /\ user_data = [k \in Keys |-> <<>>]
    /\ data_backups = <<>>
    /\ storage_stats = [u \in Users |-> <<>>]
    /\ conn = [c \in Conns |-> NoTx]
    /\ lastConn = 1
    /\ clock = SeedAuthClock
    /\ backup_seq = 0
    /\ faults = 0
    /\ req = [r \in Reqs |-> IdleReq]

Next == \E r \in Reqs : Step(r, ScopeConc)

NextSeq == \E r \in Reqs : Step(r, ScopeSeq)

NextMulti == \E r \in Reqs : Step(r, ScopeMulti)

Spec == InitUsed /\ [][Next]_vars

SpecSeq == Init /\ [][NextSeq]_vars

SpecMulti == InitUsed /\ [][NextMulti]_vars

NextAuth ==
    \/ \E r \in Reqs : AuthStep(r, ScopeAuth)
    \/ \E r \in Reqs : Step(r, ScopeAuth)
    \/ CleanupExpiredSessions
    \/ MonthPasses
    \/ DeleteUser(1)

SpecAuth == InitAuth /\ [][NextAuth]_vars

----------------------------------------------------------------------------
(* Properties *)

Done(r) == req[r].pc = "done"

\* request r takes its step from position pc
Leaves(r, pc) == req[r].pc = pc /\ req'[r].pc # pc

Writers == {"save", "restore", "delete"}

SameState(b, doc) ==
    b.content = doc.content /\ b.version = doc.version /\ b.data_type = doc.data_type

\* rows grew by exactly one row, a Backup of key k holding the state doc
OneBackupAdded(old, new, k, doc) ==
    /\ Len(new) = Len(old) + 1
    /\ SubSeq(new, 1, Len(old)) = old
    /\ new[Len(new)].user_id = k[1] /\ new[Len(new)].thread_id = k[2]
    /\ SameState(new[Len(new)], doc)

\* C1: in a sequential run, a Save with force = false and a version strictly below
\* the stored one is answered 409 with the stored version, content and timestamp,
\* and no row of user_data, data_backups or storage_stats changes.
C1_ConflictLeavesStore ==
    [][\A r \in Reqs :
        LET k == Key(r) IN
        (/\ Leaves(r, "save_select") /\ faults' = faults
         /\ user_data[k] # <<>> /\ ~req[r].force
         /\ req[r].version < user_data[k][1].version)
        => /\ Done(r)' /\ req'[r].status = 409
           /\ req'[r].body.conflict
           /\ req'[r].body.serverVersion = user_data[k][1].version
           /\ req'[r].body.serverData = user_data[k][1].content
           /\ req'[r].body.serverUpdatedAt = user_data[k][1].updated_at
           /\ UNCHANGED <<tables, conn>>]_vars

C1_Witness ==
    \E r \in Reqs :
        /\ Done(r) /\ req[r].op = "save" /\ req[r].status = 409 /\ ~req[r].force
        /\ user_data[Key(r)] # <<>>
        /\ req[r].version < user_data[Key(r)][1].version
        /\ req[r].content # user_data[Key(r)][1].content

\* C2: in a sequential run, a valid Save is answered 409 if and only if a row
\* exists for (user, thread), force is false and the stored version is greater
\* than the supplied one; otherwise (equal version, or force) it goes on to write.
C2_ConflictIff ==
    [][\A r \in Reqs :
        LET k == Key(r) IN
        (Leaves(r, "save_select") /\ faults' = faults)
        => /\ (Done(r)' /\ req'[r].status = 409)
              <=> (/\ user_data[k] # <<>> /\ ~req[r].force
                   /\ user_data[k][1].version > req[r].version)
           /\ ~Done(r)' => req'[r].pc = "save_begin"]_vars

\* a Save with the stored version and force = false has overwritten the row
C2_Witness ==
    \E r \in Reqs :
        /\ Done(r) /\ req[r].op = "save" /\ req[r].status = 200 /\ ~req[r].force
        /\ data_backups # <<>>
        /\ data_backups[Len(data_backups)].version = req[r].version
        /\ data_backups[Len(data_backups)].content # req[r].content
        /\ user_data[Key(r)] # <<>>
        /\ user_data[Key(r)][1].content = req[r].content

\* C3: in a sequential run on a store that fails no statement, every Save that is
\* answered 200 leaves the row of (user, thread) with the data_type, content and
\* version of the call, adds exactly one Backup holding the overwritten state when
\* a row existed and none when it created the row, and changes no other row.
C3_SaveOverwritesWithBackup ==
    [][\A r \in Reqs :
        LET k == Key(r) IN
        (Leaves(r, "save_commit") /\ req'[r].status = 200 /\ faults' = 0)
        => /\ user_data'[k] # <<>>
           /\ user_data'[k][1].data_type = req[r].dataType
           /\ user_data'[k][1].content = req[r].content
           /\ user_data'[k][1].version = req[r].version
           /\ \A k2 \in Keys \ {k} : user_data'[k2] = user_data[k2]
           /\ IF user_data[k] = <<>> THEN data_backups' = data_backups
              ELSE OneBackupAdded(data_backups, data_backups', k, user_data[k][1])]_vars

\* three Saves in a row have left two Backups
C3_Witness ==
    /\ Done(1) /\ req[1].op = "save" /\ req[1].status = 200 /\ faults = 0
    /\ clock = 3 /\ Len(data_backups) = 2
    /\ user_data[Key(1)] # <<>>
    /\ user_data[Key(1)][1].content = req[1].content
    /\ data_backups[2].created_at = 2

\* C4: in every run, concurrent requests included, a step that replaces or removes
\* a committed row of user_data commits in the same step a Backup of that
\* (user, thread) holding the replaced state.
C4_EveryOverwriteBackedUp ==
    [][\A k \in Keys :
        (user_data[k] # <<>> /\ user_data'[k] # user_data[k])
        => \E i \in (Len(data_backups) + 1)..Len(data_backups') :
              /\ data_backups'[i].user_id = k[1] /\ data_backups'[i].thread_id = k[2]
              /\ SameState(data_backups'[i], user_data[k][1])]_vars

\* C5: in a sequential run, a writing request that reaches its COMMIT after one
\* of the statements of its transaction failed is answered 500, and the three
\* tables are left as they were.
C5_FailedStatementAnswers500 ==
    [][\A r \in Reqs :
        (/\ Leaves(r, "save_commit") \/ Leaves(r, "restore_commit")
                \/ Leaves(r, "delete_commit")
         /\ Rejects(lastConn) /\ Done(r)')
        => (req'[r].status = 500 /\ UNCHANGED tables)]_vars

\* the statistics row recomputed from the committed rows of user u
CommittedStats(u) ==
    LET rows == {k \in Keys : k[1] = u /\ user_data[k] # <<>>} IN
    StatsRow(Sum([k \in Keys |-> IF user_data[k] # <<>>
                                 THEN Len(user_data[k][1].content) ELSE 0], rows),
             Cardinality(rows))

\* C6: in a sequential run, a writing request is never answered 200 unless its
\* statistics recomputation took effect: the user's storage_stats row then holds
\* the totals of the committed rows.
C6_SuccessMeansStatsUpdated ==
    \A r \in Reqs :
        (Done(r) /\ req[r].op \in Writers /\ req[r].status = 200)
        => storage_stats[req[r].user] = <<CommittedStats(req[r].user)>>

\* C7: in a sequential run on a store that fails no statement, a Restore of
\* Backup B answered 200 leaves the row with B's data_type and content, and with
\* version B.version + 1 when a row existed (whatever its version was), B.version
\* when none existed.
C7_RestoreVersion ==
    [][\A r \in Reqs :
        LET k == Key(r) IN
        (Leaves(r, "restore_commit") /\ req'[r].status = 200 /\ faults' = 0)
        => LET B == req[r].backupRows[1] IN
           /\ user_data'[k] # <<>>
           /\ user_data'[k][1].data_type = B.data_type
           /\ user_data'[k][1].content = B.content
           /\ user_data'[k][1].version =
                  IF user_data[k] = <<>> THEN B.version ELSE B.version + 1]_vars

\* a Restore of a Backup of version MaxVersion onto a row of a lower version
C7_Witness ==
    \E r \in Reqs :
        /\ Done(r) /\ req[r].op = "restore" /\ req[r].status = 200 /\ faults = 0
        /\ user_data[Key(r)] # <<>>
        /\ user_data[Key(r)][1].version = MaxVersion + 1
        /\ data_backups[Len(data_backups)].version < MaxVersion

\* C8: in a sequential run on a store that fails no statement, the version in
\* the 200 answer of a Save or a Restore is the version of the stored row.
C8_ReturnedVersionIsStored ==
    \A r \in Reqs :
        (/\ Done(r) /\ req[r].op \in {"save", "restore"}
         /\ req[r].status = 200 /\ faults = 0)
        => /\ user_data[Key(r)] # <<>>
           /\ req[r].body.version = user_data[Key(r)][1].version

\* every answer History(limit) can give from the committed tables
HistoryAnswers(k, limit) ==
    {HistoryBody(user_data[k], Limit(ord, limit)) :
        ord \in DescOrders(ThreadBackups(data_backups, k))}

\* C9: in a sequential run on a store that fails no statement, right after a
\* Restore of Backup B onto an existing row S is answered 200, every History
\* answer has B's content as current and a Backup holding S as history[0].
C9_RestoreThenHistory ==
    [][\A r \in Reqs :
        LET k == Key(r) IN
        (/\ Leaves(r, "restore_commit") /\ req'[r].status = 200 /\ faults' = 0
         /\ user_data[k] # <<>>)
        => \A h \in HistoryAnswers(k, DefaultLimit)' :
              /\ h.current # <<>>
              /\ h.current[1].content = req[r].backupRows[1].content
              /\ h.history # <<>>
              /\ SameState(h.history[1], user_data[k][1])]_vars

\* a Restore onto an existing row whose content differs from the Backup's
C9_Witness ==
    \E r \in Reqs :
        /\ Done(r) /\ req[r].op = "restore" /\ req[r].status = 200 /\ faults = 0
        /\ Len(data_backups) = 2
        /\ data_backups[2].created_at = clock
        /\ user_data[Key(r)] # <<>>
        /\ user_data[Key(r)][1].content # data_backups[2].content

\* C10: in a sequential run on a store that fails no statement, right after a
\* Delete of an existing row S is answered 200, Load answers 404 and every History
\* answer has current null and a Backup holding S as history[0]; and a row only
\* comes into being in the COMMIT of a Save or of a Restore of its (user, thread).
C10_DeleteThenLoadAndHistory ==
    [][/\ \A r \in Reqs :
            LET k == Key(r) IN
            (/\ Leaves(r, "delete_commit") /\ req'[r].status = 200 /\ faults' = 0
             /\ user_data[k] # <<>>)
            => /\ LoadOutcome(user_data'[k]).status = 404
               /\ \A h \in HistoryAnswers(k, DefaultLimit)' :
                     /\ h.current = <<>>
                     /\ h.history # <<>>
                     /\ SameState(h.history[1], user_data[k][1])
       /\ \A k \in Keys :
            (user_data[k] = <<>> /\ user_data'[k] # <<>>)
            => \E r \in Reqs :
                  /\ Key(r) = k
                  /\ Leaves(r, "save_commit") \/ Leaves(r, "restore_commit")]_vars

\* a Delete of a row that had been saved twice
C10_Witness ==
    \E r \in Reqs :
        /\ Done(r) /\ req[r].op = "delete" /\ req[r].status = 200 /\ faults = 0
        /\ user_data[Key(r)] = <<>>
        /\ Len(data_backups) = 2
        /\ data_backups[2].created_at = clock

\* C11: in a sequential run, a Restore whose backupId names no Backup row, or a
\* Backup row of another user, is answered 404 and changes no row of user_data,
\* data_backups or storage_stats of any user.
C11_ForeignBackupNotFound ==
    [][\A r \in Reqs :
        (/\ Leaves(r, "restore_lookup") /\ faults' = faults
         /\ ~\E i \in 1..Len(data_backups) :
               /\ data_backups[i].id = req[r].backupId
               /\ data_backups[i].user_id = req[r].user)
        => /\ Done(r)' /\ req'[r].status = 404
           /\ req'[r].body = Error("Backup not found")
           /\ UNCHANGED <<tables, conn>>]_vars

\* a Restore of another user's Backup was answered 404
C11_Witness ==
    \E r \in Reqs :
        /\ Done(r) /\ req[r].op = "restore" /\ req[r].status = 404
        /\ \E i \in 1..Len(data_backups) :
              /\ data_backups[i].id = req[r].backupId
              /\ data_backups[i].user_id # req[r].user
              /\ data_backups[i].thread_id = req[r].thread

\* C12: in a sequential run on a store that fails no statement, the 200 answer of
\* a Delete carries a field `deleted` that is true exactly when a row of
\* (user, thread) existed; a Delete of an absent row is answered 200 and adds no
\* Backup row.
C12_DeleteReportsRemoval ==
    [][\A r \in Reqs :
        LET k == Key(r) IN
        (Leaves(r, "delete_commit") /\ faults' = 0)
        => /\ req'[r].status = 200
           /\ "deleted" \in DOMAIN req'[r].body
           /\ req'[r].body.deleted = (user_data[k] # <<>>)
           /\ user_data[k] = <<>> => data_backups' = data_backups]_vars

\* a GET of /api/sync/stats, answered
StatsRequestDone(r) ==
    Done(r) /\ req[r].op = "load" /\ req[r].thread = StatsSegment

\* C13: in a sequential run on a store that fails no statement, a GET of
\* /api/sync/stats is answered 200 with the Stats answer: the user's storage_stats
\* row or null, the number of the user's rows of user_data and the number of the
\* user's rows of data_backups.
C13_StatsRouteAnswersStats ==
    \A r \in Reqs :
        (StatsRequestDone(r) /\ faults = 0)
        => /\ req[r].status = 200
           /\ req[r].body = StatsBody(req[r].user)

\* C14: in a sequential run, the step that answers a GET of /api/sync/stats
\* changes no row of user_data, data_backups or storage_stats, and its answer
\* carries storageStats, threadCount and backupCount as they follow from the
\* tables alone, so that two calls with no committed write in between agree.
C14_StatsRepeatable ==
    [][\A r \in Reqs :
        (/\ Leaves(r, "load_select") /\ req[r].thread = StatsSegment
         /\ faults' = faults)
        => /\ UNCHANGED tables
           /\ DOMAIN req'[r].body = {"success", "data"}
           /\ req'[r].body.data = StatsData(req[r].user)]_vars

\* C15: in a sequential run, the step that answers a Save, Restore or Delete with
\* 200 leaves exactly one storage_stats row for the user, holding the sum of the
\* content sizes and the number of the user's committed rows of user_data.
C15_StatsFollowDocuments ==
    [][\A r \in Reqs :
        (/\ Leaves(r, "save_commit") \/ Leaves(r, "restore_commit")
                \/ Leaves(r, "delete_commit")
         /\ req'[r].status = 200)
        => /\ Len(storage_stats'[req[r].user]) = 1
           /\ storage_stats'[req[r].user][1] = CommittedStats(req[r].user)']_vars

C17_BackupsImmutable ==
    [][/\ Len(data_backups') >= Len(data_backups)
       /\ \A i \in 1..Len(data_backups) : data_backups'[i] = data_backups[i]]_vars

\* the seeded Backup is still there after a Delete committed another behind it
C17_Witness ==
    /\ Len(data_backups) >= 2
    /\ data_backups[1].id = 1 /\ data_backups[1].created_at = SeedClock
    /\ data_backups[2].created_at > SeedClock
    /\ \E r \in Reqs : Done(r) /\ req[r].op = "delete" /\ req[r].status = 200

\* C18: in a sequential run, a History answered 200 carries the row of
\* (user, thread) or null as current, and as history min(limit, n) of the n Backup
\* rows of that user and thread, all different, newest first by created_at and
\* none older than a row left out; an absent limit counts as 10; and a History
\* with a limit >= 0 is answered 200 unless a statement fails.
C18_HistoryAnswer ==
    [][\A r \in Reqs :
        Leaves(r, "history_backups") =>
        LET k == Key(r)
            lim == IF req[r].limit = <<>> THEN 10 ELSE req[r].limit[1]
            all == {b \in Range(data_backups) :
                        b.user_id = k[1] /\ b.thread_id = k[2]}
            h == req'[r].body.history
        IN  /\ (faults' = faults /\ lim >= 0) => req'[r].status = 200
            /\ req'[r].status = 200 =>
                /\ req'[r].body.current = user_data[k]
                /\ Len(h) = Min(lim, Cardinality(all))
                /\ \A i \in 1..Len(h) : h[i] \in all
                /\ \A i, j \in 1..Len(h) :
                      i < j => h[i] # h[j] /\ h[i].created_at >= h[j].created_at
                /\ \A b \in all \ Range(h) :
                      \A i \in 1..Len(h) : b.created_at <= h[i].created_at]_vars

\* a History with limit 1 of a thread with two Backups returned the newer one
C18_Witness ==
    \E r \in Reqs :
        /\ Done(r) /\ req[r].op = "history" /\ req[r].status = 200
        /\ req[r].limit = <<1>>
        /\ Len(req[r].body.history) = 1
        /\ Cardinality(ThreadBackups(data_backups, Key(r))) = 2
        /\ \A b \in ThreadBackups(data_backups, Key(r)) :
              b.created_at <= req[r].body.history[1].created_at
        /\ req[r].body.current # <<>>

\* C19: in a sequential run, a Load with a dataType outside spreadsheet, document,
\* both is answered 400 without a statement; any other Load, unless its statement
\* fails, is answered 404 exactly when (user, thread) has no row and else 200 with
\* the content, version, updated_at and data_type of the stored row, whatever
\* dataType was asked for; no Load step changes a row of the three tables.
C19_LoadAnswer ==
    [][\A r \in Reqs :
        LET k == Key(r) IN
        /\ (clock' # clock /\ req'[r] # req[r] /\ req'[r].op = "load")
           => /\ UNCHANGED tables
              /\ IF req'[r].dataType \in {"spreadsheet", "document", "both"}
                 THEN req'[r].pc = "load_select"
                 ELSE Done(r)' /\ req'[r].status = 400
        /\ Leaves(r, "load_select")
           => /\ UNCHANGED tables
              /\ faults' = faults =>
                   IF user_data[k] = <<>> THEN req'[r].status = 404
                   ELSE /\ req'[r].status = 200
                        /\ req'[r].body =
                             [success |-> TRUE, data |-> user_data[k][1].content,
                              version |-> user_data[k][1].version,
                              updated_at |-> user_data[k][1].updated_at,
                              data_type |-> user_data[k][1].data_type]]_vars

\* a Load asking for "document" returned a row stored as "both"
C19_Witness ==
    \E r \in Reqs :
        /\ Done(r) /\ req[r].op = "load" /\ req[r].status = 200
        /\ req[r].dataType = "document"
        /\ req[r].body.data_type = "both"
        /\ req[r].body.data = user_data[Key(r)][1].content

\* C20: a Save with an empty thread, a dataType outside spreadsheet, document,
\* both, or no content is answered 400 as it arrives, without a statement and
\* without a change to any table; every other Save, whatever JSON value its
\* content is, passes on to the SELECT of the existing row.
C20_SaveValidation ==
    [][\A r \in Reqs :
        (clock' # clock /\ req'[r] # req[r] /\ req'[r].op = "save")
        => IF \/ req'[r].thread = ""
              \/ req'[r].dataType \notin {"spreadsheet", "document", "both"}
              \/ req'[r].content = ""
           THEN /\ Done(r)' /\ req'[r].status = 400
                /\ UNCHANGED <<tables, conn, lastConn, faults>>
           ELSE req'[r].pc = "save_select"]_vars

\* C29: in a sequential run, a Save with force = false that is answered 200 never
\* leaves the row with a lower version than it had; a body without version is
\* saved as version 1 and a body without force as force = false, and such a Save
\* is answered 409 exactly when a row is stored with version 2 or more.
C29_VersionNeverDecreases ==
    [][/\ \A r \in Reqs :
            LET k == Key(r) IN
            /\ (/\ Leaves(r, "save_commit") /\ req'[r].status = 200
                /\ ~req[r].force /\ user_data[k] # <<>>)
               => /\ user_data'[k] # <<>>
                  /\ user_data'[k][1].version >= user_data[k][1].version
            /\ (/\ Leaves(r, "save_select") /\ faults' = faults
                /\ req[r].version = DefaultVersion /\ ~req[r].force)
               => ((Done(r)' /\ req'[r].status = 409)
                   <=> (user_data[k] # <<>> /\ user_data[k][1].version >= 2))
       /\ \A b \in ScopeSeq.saves :
            /\ b.version = <<>> => Default(b.version, DefaultVersion) = 1
            /\ b.force = <<>> => Default(b.force, FALSE) = FALSE]_vars

\* version 1 saved, then version 2 over it, then a Save of version 1 refused
C29_Witness ==
    /\ Done(1) /\ req[1].op = "save" /\ req[1].status = 409 /\ clock = 3
    /\ req[1].version = DefaultVersion /\ ~req[1].force
    /\ user_data[Key(1)] # <<>> /\ user_data[Key(1)][1].version = 2
    /\ data_backups # <<>> /\ data_backups[1].version = 1
    /\ data_backups[1].created_at = 1

\* C30: in a sequential run on a store that fails no statement, a Delete of an
\* existing row S answered 200 leaves, as the newest Backup, a Backup of its
\* (user, thread) holding S; and a Restore of the newest Backup into its own
\* (user, thread) while the row is still absent, answered 200, stores a row with
\* exactly the content, data_type and version of that Backup, i.e. of S.
C30_DeleteThenRestore ==
    [][\A r \in Reqs :
        LET k == Key(r) IN
        /\ (/\ Leaves(r, "delete_commit") /\ req'[r].status = 200 /\ faults' = 0
            /\ user_data[k] # <<>>)
           => /\ user_data'[k] = <<>>
              /\ OneBackupAdded(data_backups, data_backups', k, user_data[k][1])
              /\ data_backups'[Len(data_backups')].id = backup_seq'
        /\ (/\ Leaves(r, "restore_commit") /\ req'[r].status = 200 /\ faults' = 0
            /\ user_data[k] = <<>> /\ data_backups # <<>>
            /\ req[r].backupId = data_backups[Len(data_backups)].id
            /\ data_backups[Len(data_backups)].user_id = k[1]
            /\ data_backups[Len(data_backups)].thread_id = k[2])
           => /\ user_data'[k] # <<>>
              /\ SameState(data_backups[Len(data_backups)], user_data'[k][1])]_vars

\* version 2 saved, deleted, and restored from the Backup of the Delete
C30_Witness ==
    /\ Done(1) /\ req[1].op = "restore" /\ req[1].status = 200 /\ faults = 0
    /\ clock = 3 /\ Len(data_backups) = 1 /\ req[1].backupId = data_backups[1].id
    /\ data_backups[1].version = 2 /\ data_backups[1].content = "[1, 2]"
    /\ user_data[Key(1)] # <<>>
    /\ user_data[Key(1)][1].version = 2 /\ user_data[Key(1)][1].content = "[1, 2]"

\* C27: a Restore into thread T answered 200 only installs a state captured from
\* thread T: the Backup it copies into the row of (user, T) is a Backup of (user, T).
C27_RestoreOnlyOwnThread ==
    [][\A r \in Reqs :
        LET k == Key(r) IN
        (/\ Leaves(r, "restore_commit") /\ req'[r].status = 200
         /\ user_data'[k] # user_data[k])
        => \E i \in DOMAIN data_backups :
              /\ data_backups[i].id = req[r].backupId
              /\ data_backups[i].user_id = k[1]
              /\ data_backups[i].thread_id = k[2]]_vars

\* the Backup rows of user u, in table order
OwnBackups(rows, u) == SelectSeq(rows, LAMBDA b : b.user_id = u)

\* C28: in a sequential run, a step of a request of user A changes no user_data,
\* data_backups or storage_stats row of another user B, and changes nothing B
\* would be answered (Load, History, Stats), also under the same thread id; and
\* what A is answered (Load, History, the Conflict payload, Restore's lookup) is
\* computed from the rows of A alone.
C28_UserIsolation ==
    [][\A r \in Reqs :
        req'[r] # req[r] =>
        LET a == req'[r].user
            k == <<a, req'[r].thread>>
        IN  /\ \A u \in Users \ {a} :
                /\ \A t \in Threads : user_data'[<<u, t>>] = user_data[<<u, t>>]
                /\ storage_stats'[u] = storage_stats[u]
                /\ OwnBackups(data_backups', u) = OwnBackups(data_backups, u)
                /\ StatsData(u)' = StatsData(u)
                /\ \A t \in Threads, l \in {1, DefaultLimit} :
                      /\ HistoryAnswers(<<u, t>>, l)' = HistoryAnswers(<<u, t>>, l)
                      /\ LoadOutcome(user_data'[<<u, t>>])
                            = LoadOutcome(user_data[<<u, t>>])
            /\ (Leaves(r, "load_select") /\ faults' = faults)
               => /\ req'[r].status = LoadOutcome(user_data[k]).status
                  /\ req'[r].body = LoadOutcome(user_data[k]).body
            /\ (Leaves(r, "history_backups") /\ req'[r].status = 200)
               => req'[r].body \in HistoryAnswers(k, HistoryLimit(r))
            /\ (Leaves(r, "save_select") /\ req'[r].status = 409)
               => req'[r].body = ConflictBody(user_data[k][1])
            /\ (Leaves(r, "restore_lookup") /\ faults' = faults)
               => /\ (Done(r)' /\ req'[r].status = 404)
                     <=> ~\E i \in DOMAIN data_backups :
                            /\ data_backups[i].id = req[r].backupId
                            /\ data_backups[i].user_id = a
                  /\ \A b \in Range(req'[r].backupRows) : b.user_id = a]_vars

\* both users hold a row under the same thread id, with different content, user 1
\* has a Backup of that thread, and user 2 has been answered its History
C28_Witness ==
    /\ Done(1) /\ req[1].op = "history" /\ req[1].user = 2 /\ req[1].thread = "t1"
    /\ req[1].status = 200 /\ req[1].body.history = <<>>
    /\ user_data[<<1, "t1">>] # <<>> /\ user_data[<<2, "t1">>] # <<>>
    /\ user_data[<<1, "t1">>][1].content # user_data[<<2, "t1">>][1].content
    /\ req[1].body.current = user_data[<<2, "t1">>]
    /\ \E i \in DOMAIN data_backups :
          data_backups[i].user_id = 1 /\ data_backups[i].thread_id = "t1"

\* C24: with concurrent requests, a Save with force = false gets past its check
\* exactly on the row its SELECT read (absent, or of a version not above its own),
\* the SELECT runs outside any transaction the request has opened, and the
\* decision is final: no later step of the Save answers 409, whatever has been
\* committed for the (user, thread) in the meantime.
C24_CheckBeforeTransaction ==
    [][\A r \in Reqs :
        /\ (Leaves(r, "save_select") /\ ~Done(r)' /\ ~req[r].force)
           => /\ req'[r].pc = "save_begin"
              /\ req'[r].rows = <<>> \/ req'[r].rows[1].version <= req[r].version
              /\ \A c \in Conns : conn'[c].open = conn[c].open
        /\ (req[r].op = "save" /\ InFlight(r) /\ req[r].pc # "save_select")
           => req'[r].status # 409]_vars

\* two Saves with force = false of the same (user, thread), both past the check:
\* the one of version 2 has been answered 200 and its row is committed, the one
\* of version 1 has its row written in an open transaction and is about to COMMIT
C24_Witness ==
    \E r, r2 \in Reqs :
        LET k == Key(r) IN
        /\ r # r2 /\ Key(r2) = k /\ faults = 0
        /\ req[r].op = "save" /\ req[r].pc = "save_commit" /\ ~req[r].force
        /\ Done(r2) /\ req[r2].op = "save" /\ req[r2].status = 200 /\ ~req[r2].force
        /\ user_data[k] # <<>>
        /\ user_data[k][1].version = req[r2].version
        /\ user_data[k][1].content = req[r2].content
        /\ req[r].version < user_data[k][1].version
        /\ \E c \in Conns :
              /\ conn[c].open /\ ~conn[c].aborted
              /\ conn[c].wdata[k] # <<>> /\ conn[c].wdata[k][1] # <<>>
              /\ conn[c].wdata[k][1][1].version = req[r].version

\* C25: with concurrent requests, the statements of a request run in the
\* transaction that request opened, so the COMMIT of a request makes durable the
\* writes of that request and of no other: the row a Save's COMMIT stores is the
\* row of that Save, a Delete's COMMIT stores no row, and a Restore's COMMIT
\* stores the state of the Backup that Restore looked up.
C25_OwnTransactionOnly ==
    [][\A r \in Reqs :
        LET k == Key(r) IN
        /\ (Leaves(r, "save_commit") /\ user_data'[k] # user_data[k])
           => /\ user_data'[k] # <<>>
              /\ user_data'[k][1].content = req[r].content
              /\ user_data'[k][1].version = req[r].version
        /\ (Leaves(r, "delete_commit") /\ user_data'[k] # user_data[k])
           => user_data'[k] = <<>>
        /\ (Leaves(r, "restore_commit") /\ user_data'[k] # user_data[k])
           => /\ user_data'[k] # <<>>
              /\ user_data'[k][1].content = req[r].backupRows[1].content]_vars

\* positions of a writing request: about to issue BEGIN, a statement inside the
\* transaction, a statement of updateStorageStats, COMMIT, ROLLBACK
BeginPcs == {"save_begin", "restore_begin", "delete_begin"}
TxStmtPcs == {"save_backup", "save_upsert", "restore_select", "restore_backup",
              "restore_upsert", "delete_select", "delete_backup", "delete_row"}
StatsPcs == {"stats_select", "stats_upsert"}
CommitPcs == {"save_commit", "restore_commit", "delete_commit"}
RollbackPcs == {"save_rollback", "restore_rollback", "delete_rollback"}

\* request r issues the statement of a position in pcs
Issues(r, pcs) == req[r].pc \in pcs /\ req'[r].pc # req[r].pc

SyncOps == {"save", "load", "history", "restore", "delete"}

\* C21: with requireAuth in front of every route of the sync router, a request
\* without a token is answered 401, one whose token does not verify (forged,
\* garbage or expired) 403, and one whose token names a user without a row 403;
\* until the middleware calls next() no step of the request reads or writes a
\* row of user_data, data_backups or storage_stats; and a handler only starts
\* where the middleware called next(), for the existing user the verified token
\* names.
C21_NoSyncWithoutPrincipal ==
    [][\A r \in Reqs :
        /\ (clock' = clock + 1 /\ req'[r] # req[r] /\ req'[r].op = "sync")
           => /\ req'[r].token = NoToken => Done(r)' /\ req'[r].status = 401
              /\ (req'[r].token # NoToken
                  /\ (req'[r].token.sig # "ok" \/ req'[r].token.exp <= clock'))
                 => Done(r)' /\ req'[r].status = 403
        /\ (Leaves(r, "auth_user") /\ faults' = faults
            /\ \A i \in DOMAIN users : users[i].id # req[r].token.userId)
           => Done(r)' /\ req'[r].status = 403
        /\ (req'[r] # req[r] /\ req'[r].op = "sync")
           => /\ UNCHANGED <<tables, conn, backup_seq>>
              /\ req'[r].rows = <<>> /\ req'[r].backupRows = <<>>
              /\ Done(r)' => req'[r].status \in {401, 403, 500}
        /\ (req'[r] # req[r] /\ req'[r].op \in SyncOps /\ req[r].op \notin SyncOps)
           => /\ req[r].op = "sync" /\ req[r].pc = "auth_next"
              /\ req[r].token.sig = "ok" /\ clock < req[r].token.exp
              /\ req'[r].user = req[r].token.userId
              /\ \E i \in DOMAIN users : users[i].id = req'[r].user]_vars

\* a request with a token that verifies, of a user whose row is gone, was
\* answered 403 after the SELECT of the middleware
C21_Witness ==
    /\ Done(1) /\ req[1].op = "sync" /\ req[1].status = 403
    /\ req[1].body = Error("User not found")
    /\ req[1].token \in issued /\ VerifyToken(req[1].token, clock)
    /\ UserById(req[1].token.userId) = <<>>

\* C22: GET /api/auth/verify answers a request carrying a token that verifies, of
\* a user with a row, with 200 and that user, and a request without a token or
\* with a token that does not verify with 401.
C22_VerifyAnswers ==
    [][\A r \in Reqs :
        (clock' = clock + 1 /\ req'[r] # req[r] /\ req'[r].op = "verify")
        => LET tok == req'[r].token IN
           /\ Done(r)'
           /\ IF VerifyToken(tok, clock') /\ UserById(tok.userId) # <<>>
              THEN /\ req'[r].status = 200
                   /\ req'[r].body = VerifyBody(tok.userId)
              ELSE req'[r].status = 401]_vars

\* C23: a register answered 201 and a login answered 200 add exactly one row to
\* user_sessions, holding the user, the hash of the token of the response and an
\* expiry 30 days ahead; a step of a register or login that is not that answer
\* leaves user_sessions as it is; a logout with a token, answered 200, removes the
\* rows with the hash of that token and no other; and a step of the sweep that
\* changes user_sessions removes exactly the rows whose expiry is in the past.
C23_SessionLifecycle ==
    [][/\ \A r \in Reqs :
            /\ (req'[r] # req[r] /\ req'[r].op \in {"register", "login"})
               => IF Done(r)' /\ req'[r].status \in {200, 201}
                  THEN /\ req[r].pc \in {"register_session", "login_session"}
                       /\ req'[r].status = IF req[r].op = "register" THEN 201 ELSE 200
                       /\ user_sessions' =
                             Append(user_sessions,
                                    [user_id |-> req[r].user,
                                     token_hash |-> <<"sha256", req'[r].body.token>>,
                                     expires_at |-> clock + 30])
                       /\ req'[r].body.token \in issued' \ issued
                       /\ req'[r].body.token.userId = req[r].user
                  ELSE UNCHANGED <<user_sessions, issued>>
            /\ (req'[r] # req[r] /\ req'[r].op = "logout")
               => IF Leaves(r, "logout_delete") /\ req'[r].status = 200
                  THEN user_sessions' =
                          SelectSeq(user_sessions,
                                    LAMBDA x : x.token_hash # <<"sha256", req[r].token>>)
                  ELSE UNCHANGED user_sessions
       /\ (req' = req /\ users' = users /\ clock' = clock)
          => user_sessions' \in
                {user_sessions,
                 SelectSeq(user_sessions, LAMBDA x : x.expires_at >= clock)}]_vars

\* two sessions of user 1: the one of the registration has expired and has been
\* swept, the one of the login a month later, the only request since, is kept
C23_Witness ==
    /\ Done(1) /\ req[1].op = "login" /\ req[1].status = 200
    /\ Len(user_sessions) = 1
    /\ user_sessions[1].token_hash = HashToken(req[1].body.token)
    /\ user_sessions[1].expires_at = req[1].body.token.iat + 30
    /\ user_sessions[1].expires_at >= clock
    /\ clock = 32
    /\ \E t \in issued : t.exp < clock /\ t.userId = req[1].user

\* C31: requireAuth accepts a token only while user_sessions holds a row for it:
\* whenever the middleware calls next(), a row with the hash of the request's
\* token exists, so after a logout with the token, or after the sweep removed its
\* row, a sync request carrying it is answered 401 or 403.
C31_AcceptedOnlyWithSession ==
    [][\A r \in Reqs :
        (req'[r] # req[r] /\ req'[r].op = "sync" /\ req'[r].pc = "auth_next")
        => \E i \in DOMAIN user_sessions :
              user_sessions[i].token_hash = <<"sha256", req[r].token>>]_vars

\* the store InitUsed starts from
SeedReached ==
    /\ user_data = [k \in Keys |-> <<>>]
    /\ data_backups = <<BackupRow(1, <<1, "t1">>,
                                  [data_type |-> "document", content |-> "[1]",
                                   version |-> 1], SeedClock)>>
    /\ storage_stats = [u \in Users |-> IF u = 1 THEN <<StatsRow(0, 0)>> ELSE <<>>]
    /\ conn = [c \in Conns |-> NoTx]
    /\ lastConn = 1 /\ clock = SeedClock /\ backup_seq = 1 /\ faults = 0
    /\ ~InFlight(1)

NotSeedReached == ~SeedReached

====
